---------------------------- MODULE Spec2Model ----------------------------
(***************************************************************************)
(* The Manim scene validator of src/validate_scenes.py as a state machine. *)
(*                                                                         *)
(* Lengths are integers in thousandths of a frame unit (1000 = 1.0), so    *)
(* that the two-decimal formatting of an offending coordinate is a real    *)
(* rounding.  Ratios are exact rationals <<numerator, denominator>>.  The  *)
(* overlap threshold is held in tenths (3 = 0.3).                          *)
(***************************************************************************)
EXTENDS Integers, Sequences, FiniteSets, TLC

(***************************************************************************)
(* Bounds of the model.                                                    *)
(***************************************************************************)
\* play calls a content-description routine makes at most
MaxPlays == 2
\* arguments of one play call at most
MaxBatch == 2
\* records a client of the tracker alone adds at most
MaxIssues == 3
\* greatest coordinate of the boxes the geometry helpers are tried on
MaxCoord == 3

(***************************************************************************)
(* Program constants (validate_scenes.py lines 36-40), in thousandths.     *)
(***************************************************************************)
HALF_W == 7111
HALF_H == 4000
EDGE_TOL == 50

None == <<>>

Max(a, b) == IF a >= b THEN a ELSE b
Min(a, b) == IF a <= b THEN a ELSE b

(***************************************************************************)
(* The scene graph the routines work on.  An element's                     *)
(* geometry is what the framework answers to has_points() and              *)
(* get_corner(): pts (has_points), ok (FALSE: the corner query raises),    *)
(* and the extent l, r, b, t.                                              *)
(***************************************************************************)
\* anim_arg.mobject is None
NoMob == 0

Geo(pts, ok, l, r, b, t) == [pts |-> pts, ok |-> ok, l |-> l, r |-> r, b |-> b, t |-> t]

\* in the frame
GeoA == Geo(TRUE, TRUE, 0, 2000, 0, 1000)
\* in the frame; half of it lies over GeoA (ratio 0.5)
GeoB == Geo(TRUE, TRUE, 1000, 3000, 0, 1000)
\* in the frame; three quarters of it lie over GeoA (ratio 0.75)
GeoC == Geo(TRUE, TRUE, 500, 2500, 0, 1000)
\* beyond the left edge: x = -8.004, printed -8.00
GeoL1 == Geo(TRUE, TRUE, -8004, -6000, -1000, 1000)
\* beyond the left edge: x = -8.001, printed -8.00 as well
GeoL2 == Geo(TRUE, TRUE, -8001, -6000, -1000, 1000)
\* beyond the left edge: x = -8.100, printed -8.10
GeoL3 == Geo(TRUE, TRUE, -8100, -6000, -1000, 1000)
\* beyond the left and the top edge
GeoLT == Geo(TRUE, TRUE, -8004, -6000, 3000, 4500)
\* zero width, lying over GeoA and beyond the top edge
GeoZ == Geo(TRUE, TRUE, 1000, 1000, 0, 5000)
\* no points of its own; the extent (of its family) is GeoA's and beyond nothing
GeoE == Geo(FALSE, TRUE, 0, 2000, 0, 1000)
\* the corner query raises
GeoX == Geo(TRUE, FALSE, 0, 2000, 0, 1000)

(***************************************************************************)
(* Geometry helpers.                                                       *)
(***************************************************************************)

\* get_bbox without the test of line 52
get_bbox_no_eps(g, subs) ==
    IF ~g.pts /\ Len(subs) = 0 THEN None
    ELSE IF ~g.ok THEN None
    ELSE <<g.l, g.r, g.b, g.t>>

\* get_bbox(mob): <<l, r, b, t>> or None.  subs is mob.submobjects.
\* 1e-5 frame units are 1/100 of a thousandth.
get_bbox(g, subs) ==
    IF ~g.pts /\ Len(subs) = 0 THEN None
    ELSE IF ~g.ok THEN None
    ELSE IF (g.r - g.l) * 100 < 1 \/ (g.t - g.b) * 100 < 1 THEN None
    ELSE <<g.l, g.r, g.b, g.t>>

bbox_area(bbox) == Max(0, bbox[2] - bbox[1]) * Max(0, bbox[4] - bbox[3])

bbox_intersection(b1, b2) ==
    LET l == Max(b1[1], b2[1])
        r == Min(b1[2], b2[2])
        b == Max(b1[3], b2[3])
        t == Min(b1[4], b2[4])
    IN  IF l < r /\ b < t THEN <<l, r, b, t>> ELSE None

\* a ratio taken of the first box's area
overlap_ratio_of_first(b1, b2) ==
    LET inter == bbox_intersection(b1, b2)
    IN  IF inter = None THEN <<0, 1>>
        ELSE LET inter_area == bbox_area(inter)
                 min_area == bbox_area(b1)
             IN  IF min_area < 1 THEN <<0, 1>> ELSE <<inter_area, min_area>>

\* a ratio taken of the larger box's area
overlap_ratio_of_larger(b1, b2) ==
    LET inter == bbox_intersection(b1, b2)
    IN  IF inter = None THEN <<0, 1>>
        ELSE LET inter_area == bbox_area(inter)
                 min_area == Max(bbox_area(b1), bbox_area(b2))
             IN  IF min_area < 1 THEN <<0, 1>> ELSE <<inter_area, min_area>>

\* overlap_ratio(b1, b2) as the rational <<inter_area, min_area>>; 0.0 is <<0, 1>>.
\* 1e-6 square frame units are one square thousandth.
overlap_ratio(b1, b2) ==
    LET inter == bbox_intersection(b1, b2)
    IN  IF inter = None THEN <<0, 1>>
        ELSE LET inter_area == bbox_area(inter)
                 min_area == Min(bbox_area(b1), bbox_area(b2))
             IN  IF min_area < 1 THEN <<0, 1>> ELSE <<inter_area, min_area>>

\* ratio > tenths / 10
RatioGt(ratio, tenths) == ratio[1] * 10 > tenths * ratio[2]

\* "{x:.2f}": x rounded to hundredths (the nearest multiple of 10 thousandths).
\* No coordinate of the model ends in 5, where the binary value decides.
Fmt2(x) == ((x + 5) \div 10) * 10

\* "{ratio:.0%}": the ratio as a whole percentage
FmtPct(ratio) == (200 * ratio[1] + ratio[2]) \div (2 * ratio[2])

\* an is_oob that compares with the frame itself, without EDGE_TOL
is_oob_no_tol(bbox) ==
    (IF bbox[1] < -HALF_W THEN << <<"LEFT", Fmt2(bbox[1])>> >> ELSE <<>>)
    \o (IF bbox[2] > HALF_W THEN << <<"RIGHT", Fmt2(bbox[2])>> >> ELSE <<>>)
    \o (IF bbox[3] < -HALF_H THEN << <<"BOTTOM", Fmt2(bbox[3])>> >> ELSE <<>>)
    \o (IF bbox[4] > HALF_H THEN << <<"TOP", Fmt2(bbox[4])>> >> ELSE <<>>)

\* is_oob(bbox): the violations in the order LEFT, RIGHT, BOTTOM, TOP, each
\* the edge with the offending coordinate as printed
is_oob(bbox) ==
    (IF bbox[1] < -HALF_W - EDGE_TOL THEN << <<"LEFT", Fmt2(bbox[1])>> >> ELSE <<>>)
    \o (IF bbox[2] > HALF_W + EDGE_TOL THEN << <<"RIGHT", Fmt2(bbox[2])>> >> ELSE <<>>)
    \o (IF bbox[3] < -HALF_H - EDGE_TOL THEN << <<"BOTTOM", Fmt2(bbox[3])>> >> ELSE <<>>)
    \o (IF bbox[4] > HALF_H + EDGE_TOL THEN << <<"TOP", Fmt2(bbox[4])>> >> ELSE <<>>)


(***************************************************************************)
(* The casts the scene routines work with.  A cast gives each element its  *)
(* label (mob_label, lines 99-112, is a function of the element's class    *)
(* and text, which a run does not change; labels are numbered in string    *)
(* order), its submobjects, the geometries the routine may give it and the *)
(* geometry it is created with.                                            *)
(***************************************************************************)
Elems == 1 .. 3

\* two elements of one label that wander beyond the left edge of the frame
CastEdges ==
    [elems |-> {1, 2},
     label |-> <<1, 1, 0>>,
     submobjects |-> << <<>>, <<>>, <<>> >>,
     geoms |-> << {GeoA, GeoL1, GeoL2, GeoL3}, {GeoL1}, {} >>,
     start |-> <<GeoA, GeoL1, GeoA>>]

\* two unrelated elements, overlapping by 50%, 75% or 100%
CastOverlaps ==
    [elems |-> {1, 2},
     label |-> <<1, 2, 0>>,
     submobjects |-> << <<>>, <<>>, <<>> >>,
     geoms |-> << {GeoA, GeoB, GeoC}, {GeoA}, {} >>,
     start |-> <<GeoB, GeoA, GeoA>>]

\* three unrelated elements, two of them of one label and at one place, the
\* third over them by 50% or 100%
CastTwins ==
    [elems |-> {1, 2, 3},
     label |-> <<2, 1, 1>>,
     submobjects |-> << <<>>, <<>>, <<>> >>,
     geoms |-> << {GeoA, GeoB}, {GeoA}, {GeoA} >>,
     start |-> <<GeoA, GeoA, GeoA>>]

\* a group (no points of its own) holding 2, which holds 3, all at one place
CastFamily ==
    [elems |-> {1, 2, 3},
     label |-> <<1, 2, 2>>,
     submobjects |-> << <<2>>, <<3>>, <<>> >>,
     geoms |-> << {GeoE}, {GeoA}, {GeoA} >>,
     start |-> <<GeoE, GeoA, GeoA>>]

\* a group holding 2, and an unrelated element of the label of 2, all at one
\* place
CastGroup ==
    [elems |-> {1, 2, 3},
     label |-> <<1, 2, 2>>,
     submobjects |-> << <<2>>, <<>>, <<>> >>,
     geoms |-> << {GeoE}, {GeoA}, {GeoA} >>,
     start |-> <<GeoE, GeoA, GeoA>>]

\* an element that is measured, in the frame or out of it, and one that may
\* not be measurable
CastDegenerate ==
    [elems |-> {1, 2},
     label |-> <<1, 2, 0>>,
     submobjects |-> << <<>>, <<>>, <<>> >>,
     geoms |-> << {GeoA, GeoLT}, {GeoA, GeoZ, GeoE, GeoX}, {} >>,
     start |-> <<GeoA, GeoA, GeoA>>]

\* the casts of the runs over several scenes: one element, in the frame or
\* out of it
CastPlain ==
    [elems |-> {1},
     label |-> <<1, 0, 0>>,
     submobjects |-> << <<>>, <<>>, <<>> >>,
     geoms |-> << {GeoA, GeoL1}, {}, {} >>,
     start |-> <<GeoA, GeoA, GeoA>>]

\* and two unrelated elements that stay at one place
CastPair ==
    [elems |-> {1, 2},
     label |-> <<1, 2, 0>>,
     submobjects |-> << <<>>, <<>>, <<>> >>,
     geoms |-> << {GeoA}, {GeoA}, {} >>,
     start |-> <<GeoA, GeoA, GeoA>>]

\* the cast of the play calls under observation: an element in the frame or
\* out of it, and one in its way
CastStage ==
    [elems |-> {1, 2},
     label |-> <<1, 2, 0>>,
     submobjects |-> << <<>>, <<>>, <<>> >>,
     geoms |-> << {GeoA, GeoL1}, {GeoA}, {} >>,
     start |-> <<GeoA, GeoA, GeoA>>]

(***************************************************************************)
(* The namespace of the scenes module: what dir() lists, in sorted order   *)
(* (rank), and what the filter of lines 323-326 reads of each entry.       *)
(***************************************************************************)
Entry(name, rank, is_scene, own, prefix) ==
    [name |-> name, rank |-> rank, is_scene |-> is_scene, own |-> own, prefix |-> prefix]

\* a Scene subclass of the module whose name does not start with "Scene"
EntryBase == Entry("BaseLayout", 1, TRUE, TRUE, FALSE)
\* manim's own Scene, brought in by "from manim import *"
EntryScene == Entry("Scene", 2, TRUE, FALSE, TRUE)
EntryScene1 == Entry("Scene1", 3, TRUE, TRUE, TRUE)
EntryScene2 == Entry("Scene2", 4, TRUE, TRUE, TRUE)
\* a name of the module starting with "Scene" that is no Scene subclass
EntryCfg == Entry("SceneConfig", 5, FALSE, TRUE, TRUE)

Module(importable, names) == [importable |-> importable, dir |-> names]

Others == {EntryBase, EntryScene, EntryCfg}
\* import_module raises ImportError
ModMissing == Module(FALSE, {})
ModNone == Module(TRUE, Others)
ModOne == Module(TRUE, Others \cup {EntryScene1})
ModTwo == Module(TRUE, Others \cup {EntryScene1, EntryScene2})

\* args.scene is None
NoScene == "None"

VARIABLES
    pc,                 \* where main() stands
    scenes_mod,         \* the scenes module: whether it imports, and its namespace
    args,               \* the parsed command line: scene, overlap_threshold
    cast,               \* the cast of the scene routines
    scene_classes,      \* main: the discovered scenes, in order
    idx,                \* main: the for loop's position in scene_classes
    issues,             \* IssueTracker.issues
    step,               \* SceneValidator.step
    reported_overlaps,  \* SceneValidator._reported_overlaps
    reported_oob,       \* SceneValidator._reported_oob
    mobjects,           \* scene.mobjects of the scene under validation
    geom,               \* the geometry of every element
    batch_left,         \* patched_play: arguments of the call not yet processed
    scanBase,           \* len(issues) when the scan that ended the last step began, else -1
    validated,          \* history: the validations begun, each with how its routine ended
    plays,              \* history: the play calls the routine of the scene has made
    scans,              \* history: the calls of _check_frame in the validation of the scene
    call,               \* history: the call under observation (NoCall where none is)
    ok,                 \* main: what report() returned
    exit_code           \* the process exit status, -1 while running

vars == <<pc, scenes_mod, args, cast, scene_classes, idx, issues, step,
          reported_overlaps, reported_oob, mobjects, geom, batch_left,
          scanBase, validated, plays, scans, call, ok, exit_code>>

\* no call is under observation
NoCall == [op |-> "none", on |-> FALSE]

\* the record of a call, kept where calls are under observation
Observed(record) == IF call.on THEN record ELSE call

(***************************************************************************)
(* Issue tracker.                                                          *)
(***************************************************************************)

\* an add that leaves out a record the tracker holds already
add_once(iss, severity, scene_name, st, msg, mobs) ==
    LET record == [severity |-> severity, scene_name |-> scene_name, step |-> st,
                   msg |-> msg, mobs |-> mobs]
    IN  IF \E k \in 1 .. Len(iss) : iss[k] = record THEN iss ELSE Append(iss, record)

\* an add that puts the record at the head of the list
add_first(iss, severity, scene_name, st, msg, mobs) ==
    <<[severity |-> severity, scene_name |-> scene_name, step |-> st,
       msg |-> msg, mobs |-> mobs]>> \o iss

\* IssueTracker.add: the tuple appended.  mobs is bookkeeping, not part of the
\* tuple: the elements the finding was made on, which msg names by label only.
add(iss, severity, scene_name, st, msg, mobs) ==
    Append(iss, [severity |-> severity, scene_name |-> scene_name, step |-> st,
                 msg |-> msg, mobs |-> mobs])

\* report that lets warnings pass
report_errors_only(iss) == \A k \in 1 .. Len(iss) : iss[k].severity # "ERROR"

\* IssueTracker.report: the value returned
report(iss) == Len(iss) = 0

(***************************************************************************)
(* Scene validator: the frame scan.                                        *)
(***************************************************************************)

mob_label(c, mob) == c.label[mob]

\* _is_ancestor without the recursion of line 292
is_ancestor_direct(c, potential_ancestor, mob) ==
    \E k \in 1 .. Len(c.submobjects[potential_ancestor]) :
        c.submobjects[potential_ancestor][k] = mob

\* an _is_ancestor that also answers True for the element itself
is_ancestor_or_self(c, potential_ancestor, mob) ==
    \/ potential_ancestor = mob
    \/ is_ancestor_direct(c, potential_ancestor, mob)
    \/ \E x \in DOMAIN c.submobjects :
         /\ is_ancestor_direct(c, potential_ancestor, x)
         /\ is_ancestor_direct(c, x, mob)

RECURSIVE is_ancestor_subs(_, _, _, _)
\* SceneValidator._is_ancestor
is_ancestor(c, potential_ancestor, mob) ==
    is_ancestor_subs(c, c.submobjects[potential_ancestor], 1, mob)

\* the loop of lines 289-293 from the k-th submobject on
is_ancestor_subs(c, subs, k, mob) ==
    IF k > Len(subs) THEN FALSE
    ELSE IF subs[k] = mob THEN TRUE
    ELSE IF is_ancestor(c, subs[k], mob) THEN TRUE
    ELSE is_ancestor_subs(c, subs, k + 1, mob)

RECURSIVE MobsWithBbox(_, _, _, _)
\* lines 233-237: (mob, bbox) of the measurable elements, in scene order
MobsWithBbox(c, mobs, g, k) ==
    IF k > Len(mobs) THEN <<>>
    ELSE LET bbox == get_bbox(g[mobs[k]], c.submobjects[mobs[k]])
         IN  (IF bbox # None THEN << <<mobs[k], bbox>> >> ELSE <<>>)
             \o MobsWithBbox(c, mobs, g, k + 1)

\* an out-of-bounds key that leaves the violations out
OobKey_LabelOnly(label, violations) == <<label, <<>> >>

\* the dedup key of an out-of-bounds finding (line 250)
OobKey(label, violations) == <<label, violations>>

\* an overlap key without sorted()
OverlapKey_Unsorted(l1, l2) == <<l1, l2>>

\* the dedup key of an overlap finding (line 275)
OverlapKey(l1, l2) == IF l1 <= l2 THEN <<l1, l2>> ELSE <<l2, l1>>

\* severities that escalate at the default threshold 0.3, and at 0.8
OverlapSeverity_At03(ratio) == IF RatioGt(ratio, 3) THEN "ERROR" ELSE "WARN"
OverlapSeverity_At08(ratio) == IF RatioGt(ratio, 8) THEN "ERROR" ELSE "WARN"

\* the severity of an overlap finding (line 278)
OverlapSeverity(ratio) == IF RatioGt(ratio, 6) THEN "ERROR" ELSE "WARN"

\* whether a ratio is to be reported (line 272)
OverThreshold(ratio, threshold) == RatioGt(ratio, threshold)

RECURSIVE OobPass(_, _, _, _, _, _)
\* lines 245-257; v is the validator's state [oob, ovl, issues]
OobPass(c, mwb, k, v, scene_name, st) ==
    IF k > Len(mwb) THEN v
    ELSE LET mob == mwb[k][1]
             violations == is_oob(mwb[k][2])
             label == mob_label(c, mob)
             key == OobKey(label, violations)
             v2 == IF violations # <<>> /\ key \notin v.oob
                   THEN [v EXCEPT !.oob = @ \cup {key},
                                  !.issues = add(@, "ERROR", scene_name, st,
                                                 [kind |-> "OOB", label |-> label,
                                                  violations |-> violations],
                                                 <<mob>>)]
                   ELSE v
         IN  OobPass(c, mwb, k + 1, v2, scene_name, st)

RECURSIVE OverlapPass(_, _, _, _, _, _, _, _)
\* lines 262-282, from the pair (i, j) on
OverlapPass(c, mwb, i, j, v, scene_name, st, threshold) ==
    IF i > Len(mwb) THEN v
    ELSE IF j > Len(mwb) THEN OverlapPass(c, mwb, i + 1, i + 2, v, scene_name, st, threshold)
    ELSE LET mob_i == mwb[i][1]
             mob_j == mwb[j][1]
             ratio == overlap_ratio(mwb[i][2], mwb[j][2])
             l1 == mob_label(c, mob_i)
             l2 == mob_label(c, mob_j)
             key == OverlapKey(l1, l2)
             v2 == IF is_ancestor(c, mob_i, mob_j) \/ is_ancestor(c, mob_j, mob_i) THEN v
                   ELSE IF OverThreshold(ratio, threshold) /\ key \notin v.ovl
                   THEN [v EXCEPT !.ovl = @ \cup {key},
                                  !.issues = add(@, OverlapSeverity(ratio), scene_name, st,
                                                 [kind |-> "OVERLAP", pct |-> FmtPct(ratio),
                                                  l1 |-> l1, l2 |-> l2],
                                                 <<mob_i, mob_j>>)]
                   ELSE v
         IN  OverlapPass(c, mwb, i, j + 1, v2, scene_name, st, threshold)

\* a _check_frame whose overlap pass forgets the pairs reported before
check_frame_ForgetsOverlaps(c, mobs, g, v, scene_name, st, threshold) ==
    LET mwb == MobsWithBbox(c, mobs, g, 1)
        w == OobPass(c, mwb, 1, v, scene_name, st)
    IN  OverlapPass(c, mwb, 1, 2, [w EXCEPT !.ovl = {}], scene_name, st, threshold)

\* SceneValidator._check_frame
check_frame(c, mobs, g, v, scene_name, st, threshold) ==
    LET mwb == MobsWithBbox(c, mobs, g, 1)
    IN  OverlapPass(c, mwb, 1, 2, OobPass(c, mwb, 1, v, scene_name, st),
                    scene_name, st, threshold)

(***************************************************************************)
(* The runs checked: what the command line and the scenes module may be.   *)
(***************************************************************************)
\* --overlap-threshold, in tenths: the default 0.3, and 0.8
Thresholds == {3, 8}

Run(mod, scene, threshold, c) ==
    [mod |-> mod, scene |-> scene, overlap_threshold |-> threshold, cast |-> c]

Runs ==
    \* the scenes module cannot be imported
    {Run(ModMissing, NoScene, 3, CastPlain)}
    \* nothing matches: no scene in the module, or --scene names none of them
    \cup {Run(ModNone, NoScene, 3, CastPlain)}
    \cup {Run(ModTwo, n, 3, CastPlain) : n \in {"Scene3", "Scene", "BaseLayout"}}
    \* one scene: overlaps under every threshold, the other casts under the default
    \cup {Run(ModOne, NoScene, t, CastOverlaps) : t \in Thresholds}
    \cup {Run(ModOne, NoScene, 3, c) :
            c \in {CastEdges, CastTwins, CastFamily, CastGroup, CastDegenerate}}
    \* two scenes, all of them or one by name
    \cup {Run(ModTwo, n, 3, CastPlain) : n \in {NoScene, "Scene2"}}
    \cup {Run(ModTwo, NoScene, 3, CastPair)}

Init ==
    /\ \E run \in Runs :
         /\ scenes_mod = run.mod
         /\ args = [scene |-> run.scene, overlap_threshold |-> run.overlap_threshold]
         /\ cast = run.cast
         /\ geom = [m \in Elems |-> run.cast.start[m]]
    /\ pc = "import"
    /\ scene_classes = <<>>
    /\ idx = 0
    /\ issues = <<>>
    /\ step = 0
    /\ reported_overlaps = {}
    /\ reported_oob = {}
    /\ mobjects = <<>>
    /\ batch_left = 0
    /\ scanBase = -1
    /\ validated = <<>>
    /\ plays = 0
    /\ scans = 0
    /\ call = NoCall
    /\ ok = FALSE
    /\ exit_code = -1

(***************************************************************************)
(* main()                                                                  *)
(***************************************************************************)

\* lines 313-317: import_module raises ImportError
ImportFails ==
    /\ pc = "import"
    /\ ~scenes_mod.importable
    /\ pc' = "exited"
    /\ exit_code' = 1
    /\ UNCHANGED <<scenes_mod, args, cast, scene_classes, idx, issues, step,
                   reported_overlaps, reported_oob, mobjects, geom, batch_left,
                   scanBase, validated, plays, scans, call, ok>>

\* line 314: the module is imported
ImportOk ==
    /\ pc = "import"
    /\ scenes_mod.importable
    /\ pc' = "discover"
    /\ UNCHANGED <<scenes_mod, args, cast, scene_classes, idx, issues, step,
                   reported_overlaps, reported_oob, mobjects, geom, batch_left,
                   scanBase, validated, plays, scans, call, ok, exit_code>>

\* the filter without name.startswith("Scene")
Matches_AnyName(e, scene) ==
    /\ e.is_scene
    /\ e.own
    /\ (scene = NoScene \/ e.name = scene)

\* the filter of lines 323-327
Matches(e, scene) ==
    /\ e.is_scene
    /\ e.own
    /\ e.prefix
    /\ (scene = NoScene \/ e.name = scene)

RECURSIVE SortedDir_Reversed(_)
\* the names of the module from the last to the first
SortedDir_Reversed(mod) ==
    IF mod = {} THEN <<>>
    ELSE LET last == CHOOSE e \in mod : \A f \in mod : e.rank >= f.rank
         IN  <<last>> \o SortedDir_Reversed(mod \ {last})

RECURSIVE SortedDir(_)
\* sorted(dir(scenes_mod))
SortedDir(mod) ==
    IF mod = {} THEN <<>>
    ELSE LET first == CHOOSE e \in mod : \A f \in mod : e.rank <= f.rank
         IN  <<first>> \o SortedDir(mod \ {first})

RECURSIVE Filter(_, _, _)
\* lines 320-328: the names of the classes kept, in the order met
Filter(names, k, scene) ==
    IF k > Len(names) THEN <<>>
    ELSE (IF Matches(names[k], scene) THEN <<names[k].name>> ELSE <<>>)
         \o Filter(names, k + 1, scene)

DiscoverScenes(mod, scene) == Filter(SortedDir(mod), 1, scene)

\* lines 320-338
Discover ==
    /\ pc = "discover"
    /\ LET found == DiscoverScenes(scenes_mod.dir, args.scene)
       IN  /\ scene_classes' = found
           /\ IF Len(found) = 0
              THEN /\ pc' = "exited"
                   /\ exit_code' = 1
                   /\ idx' = idx
              ELSE /\ pc' = "loop"
                   /\ exit_code' = exit_code
                   /\ idx' = 1
    /\ issues' = <<>>
    /\ UNCHANGED <<scenes_mod, args, cast, step, reported_overlaps, reported_oob,
                   mobjects, geom, batch_left, scanBase, validated, plays, scans, call, ok>>

scene_name == scene_classes[idx]

\* a validation that starts without lines 180-182 and with the validator of
\* the scene before
StartScene_KeepsKeys ==
    /\ pc = "loop"
    /\ idx <= Len(scene_classes)
    /\ mobjects' = <<>>
    /\ geom' = [m \in Elems |-> cast.start[m]]
    /\ batch_left' = 0
    /\ scanBase' = -1
    /\ validated' = Append(validated, [scene |-> scene_name, routine |-> "running"])
    /\ plays' = 0
    /\ scans' = 0
    /\ pc' = "construct"
    /\ UNCHANGED <<scenes_mod, args, cast, scene_classes, idx, issues, step,
                   reported_overlaps, reported_oob, call, ok, exit_code>>

\* lines 340-341 and 179-184, 215-216: a validator is made, validate() resets
\* it, builds the scene and patches it; the routine starts
StartScene ==
    /\ pc = "loop"
    /\ idx <= Len(scene_classes)
    /\ step' = 0
    /\ reported_overlaps' = {}
    /\ reported_oob' = {}
    /\ mobjects' = <<>>
    /\ geom' = [m \in Elems |-> cast.start[m]]
    /\ batch_left' = 0
    /\ scanBase' = -1
    /\ validated' = Append(validated, [scene |-> scene_name, routine |-> "running"])
    /\ plays' = 0
    /\ scans' = 0
    /\ pc' = "construct"
    /\ UNCHANGED <<scenes_mod, args, cast, scene_classes, idx, issues, call, ok, exit_code>>

\* line 184: the scene's constructor raises; nothing catches it, the
\* interpreter prints the traceback and exits with status 1
SceneCtorRaises ==
    /\ pc = "loop"
    /\ idx <= Len(scene_classes)
    /\ step' = 0
    /\ reported_overlaps' = {}
    /\ reported_oob' = {}
    /\ scanBase' = -1
    /\ validated' = Append(validated, [scene |-> scene_name, routine |-> "not run"])
    /\ plays' = 0
    /\ scans' = 0
    /\ pc' = "exited"
    /\ exit_code' = 1
    /\ UNCHANGED <<scenes_mod, args, cast, scene_classes, idx, issues, mobjects,
                   geom, batch_left, call, ok>>

(***************************************************************************)
(* The framework's scene, as far as the validator relies on it.            *)
(***************************************************************************)
InScene(mobs, m) == \E k \in 1 .. Len(mobs) : mobs[k] = m

RECURSIVE Without(_, _)
\* Scene.remove
Without(mobs, m) ==
    IF Len(mobs) = 0 THEN <<>>
    ELSE (IF Head(mobs) = m THEN <<>> ELSE <<Head(mobs)>>) \o Without(Tail(mobs), m)

\* Scene.add: the element goes to the end of scene.mobjects, once
With(mobs, m) == Append(Without(mobs, m), m)

(***************************************************************************)
(* SceneValidator.validate(): the routine runs, calling back into the      *)
(* patched play and wait.                                                  *)
(***************************************************************************)

\* the validator's state after the scan of the frame (mobs, g) at step st,
\* the tracker holding iss when the scan begins
Scanned(mobs, g, iss, st) ==
    check_frame(cast, mobs, g,
                [oob |-> reported_oob, ovl |-> reported_overlaps, issues |-> iss],
                scene_name, st, args.overlap_threshold)

\* the end of a play call that scans the frame without counting the step
EndOfBatch_Uncounted(mobs, g) ==
    \E v \in {Scanned(mobs, g, issues, step)} :
        /\ step' = step
        /\ reported_oob' = v.oob
        /\ reported_overlaps' = v.ovl
        /\ issues' = v.issues
        /\ scanBase' = Len(issues)
        /\ scans' = scans + 1
        /\ pc' = "construct"

\* the end of a play call whose scan records its findings without keeping
\* their keys
EndOfBatch_ForgetsKeys(mobs, g) ==
    \E v \in {Scanned(mobs, g, issues, step + 1)} :
        /\ step' = step + 1
        /\ UNCHANGED <<reported_oob, reported_overlaps>>
        /\ issues' = v.issues
        /\ scanBase' = Len(issues)
        /\ scans' = scans + 1
        /\ pc' = "construct"

\* lines 209-210: the step is counted and the frame scanned
EndOfBatch(mobs, g) ==
    \E v \in {Scanned(mobs, g, issues, step + 1)} :
        /\ step' = step + 1
        /\ reported_oob' = v.oob
        /\ reported_overlaps' = v.ovl
        /\ issues' = v.issues
        /\ scanBase' = Len(issues)
        /\ scans' = scans + 1
        /\ pc' = "construct"

\* the routine calls self.play with n arguments (line 187); with none, the
\* loop of line 188 is empty
PlayCall ==
    /\ pc = "construct"
    /\ step < MaxPlays
    /\ plays' = plays + 1
    /\ \E n \in 0 .. MaxBatch :
         /\ batch_left' = n
         /\ call' = Observed([op |-> "play", on |-> TRUE, mobjects |-> mobjects,
                              geom |-> geom, step |-> step, issues |-> issues,
                              n |-> n, batch |-> <<>>])
         /\ IF n = 0
            THEN EndOfBatch(mobjects, geom)
            ELSE /\ pc' = "play"
                 /\ scanBase' = -1
                 /\ UNCHANGED <<step, reported_oob, reported_overlaps, issues, scans>>
    /\ UNCHANGED <<scenes_mod, args, cast, scene_classes, idx, mobjects, geom,
                   validated, ok, exit_code>>

Stages == <<"_setup_scene", "begin", "interpolate", "finish">>

\* what play may be handed: something that is no Animation, an animation
\* without a mobject, or an animation of an element that ends in geometry
\* to, whose finish() takes the element off the scene if remover, and one of
\* whose stages raises (0: none does)
PlayArgs ==
    {[is_animation |-> FALSE, mobject |-> NoMob, to |-> GeoA, remover |-> FALSE, raises |-> 0],
     [is_animation |-> TRUE, mobject |-> NoMob, to |-> GeoA, remover |-> FALSE, raises |-> 0]}
    \cup UNION {{[is_animation |-> TRUE, mobject |-> m, to |-> g, remover |-> r, raises |-> 0] :
                   g \in cast.geoms[m], r \in BOOLEAN} : m \in cast.elems}
    \cup UNION {{[is_animation |-> TRUE, mobject |-> m, to |-> g, remover |-> TRUE, raises |-> x] :
                   g \in cast.geoms[m], x \in 1 .. Len(Stages)} : m \in cast.elems}

\* lines 196-201: the lifecycle of one animation, driven to its end or to the
\* stage that raises; a stage that raises has no effect
Lifecycle(a, mobs, g) ==
    LET interpolated == a.raises = 0 \/ a.raises > 3
        finished == a.raises = 0
    IN  [mobjects |-> IF finished /\ a.remover THEN Without(mobs, a.mobject) ELSE mobs,
         geom |-> IF interpolated THEN [g EXCEPT ![a.mobject] = a.to] ELSE g]

\* one argument of the call without the re-add of lines 205-207
ProcessArg_NoReAdd(a, mobs, g) ==
    IF ~a.is_animation \/ a.mobject = NoMob THEN [mobjects |-> mobs, geom |-> g]
    ELSE Lifecycle(a, IF ~InScene(mobs, a.mobject) THEN With(mobs, a.mobject) ELSE mobs, g)

\* one argument of the call, registered without the tests of lines 193 and 206
ProcessArg_AlwaysAdds(a, mobs, g) ==
    IF ~a.is_animation \/ a.mobject = NoMob THEN [mobjects |-> mobs, geom |-> g]
    ELSE LET after == Lifecycle(a, Append(mobs, a.mobject), g)
         IN  [mobjects |-> Append(after.mobjects, a.mobject), geom |-> after.geom]

\* lines 189-207: one argument of the call
ProcessArg(a, mobs, g) ==
    IF ~a.is_animation \/ a.mobject = NoMob THEN [mobjects |-> mobs, geom |-> g]
    ELSE LET added == IF ~InScene(mobs, a.mobject) THEN With(mobs, a.mobject) ELSE mobs
             after == Lifecycle(a, added, g)
         IN  [mobjects |-> IF ~InScene(after.mobjects, a.mobject)
                           THEN With(after.mobjects, a.mobject)
                           ELSE after.mobjects,
              geom |-> after.geom]

\* a loop without the try of lines 196-204: a stage that raises ends the call
PlayArg_Aborts ==
    /\ pc = "play"
    /\ batch_left > 0
    /\ \E a \in PlayArgs :
         /\ \E after \in {ProcessArg(a, mobjects, geom)} :
                /\ mobjects' = after.mobjects
                /\ geom' = after.geom
                /\ call' = IF call.on THEN [call EXCEPT !.batch = Append(@, a)] ELSE call
                /\ IF a.raises > 0
                   THEN /\ batch_left' = 0
                        /\ pc' = "construct"
                        /\ scanBase' = -1
                        /\ UNCHANGED <<step, reported_oob, reported_overlaps, issues, scans>>
                   ELSE /\ batch_left' = batch_left - 1
                        /\ IF batch_left = 1
                           THEN EndOfBatch(after.mobjects, after.geom)
                           ELSE UNCHANGED <<pc, step, reported_oob, reported_overlaps,
                                            issues, scanBase, scans>>
    /\ UNCHANGED <<scenes_mod, args, cast, scene_classes, idx, validated, plays,
                   ok, exit_code>>

\* one turn of the loop of line 188; after the last, lines 209-210
PlayArg ==
    /\ pc = "play"
    /\ batch_left > 0
    /\ \E a \in PlayArgs :
         /\ \E after \in {ProcessArg(a, mobjects, geom)} :
                /\ mobjects' = after.mobjects
                /\ geom' = after.geom
                /\ batch_left' = batch_left - 1
                /\ call' = IF call.on THEN [call EXCEPT !.batch = Append(@, a)] ELSE call
                /\ IF batch_left = 1
                   THEN EndOfBatch(after.mobjects, after.geom)
                   ELSE UNCHANGED <<pc, step, reported_oob, reported_overlaps,
                                    issues, scanBase, scans>>
    /\ UNCHANGED <<scenes_mod, args, cast, scene_classes, idx, validated, plays,
                   ok, exit_code>>

\* a wait that counts a step and scans the frame, as the end of a play call does
Wait_Scans ==
    /\ pc = "construct"
    /\ EndOfBatch(mobjects, geom)
    /\ call' = Observed([op |-> "wait", on |-> TRUE, mobjects |-> mobjects,
                         geom |-> geom, step |-> step, issues |-> issues,
                         reported_oob |-> reported_oob,
                         reported_overlaps |-> reported_overlaps,
                         scanBase |-> scanBase])
    /\ UNCHANGED <<scenes_mod, args, cast, scene_classes, idx, mobjects, geom,
                   batch_left, validated, plays, ok, exit_code>>

\* lines 212-213: patched_wait
Wait ==
    /\ pc = "construct"
    /\ call' = Observed([op |-> "wait", on |-> TRUE, mobjects |-> mobjects,
                         geom |-> geom, step |-> step, issues |-> issues,
                         reported_oob |-> reported_oob,
                         reported_overlaps |-> reported_overlaps,
                         scanBase |-> scanBase])
    /\ UNCHANGED <<pc, scenes_mod, args, cast, scene_classes, idx, issues, step,
                   reported_overlaps, reported_oob, mobjects, geom, batch_left,
                   scanBase, validated, plays, scans, ok, exit_code>>

\* the routine adds an element to the scene itself (self.add)
RoutineAdds ==
    /\ pc = "construct"
    /\ \E m \in cast.elems : mobjects' = With(mobjects, m)
    /\ scanBase' = -1
    /\ UNCHANGED <<pc, scenes_mod, args, cast, scene_classes, idx, issues, step,
                   reported_overlaps, reported_oob, geom, batch_left, validated,
                   plays, scans, call, ok, exit_code>>

\* the routine takes an element off the scene itself (self.remove)
RoutineRemoves ==
    /\ pc = "construct"
    /\ \E m \in cast.elems :
         /\ InScene(mobjects, m)
         /\ mobjects' = Without(mobjects, m)
    /\ scanBase' = -1
    /\ UNCHANGED <<pc, scenes_mod, args, cast, scene_classes, idx, issues, step,
                   reported_overlaps, reported_oob, geom, batch_left, validated,
                   plays, scans, call, ok, exit_code>>

\* the routine moves or reshapes an element itself (move_to, shift, ...)
RoutineMoves ==
    /\ pc = "construct"
    /\ \E m \in cast.elems : \E g \in cast.geoms[m] :
         /\ g # geom[m]
         /\ geom' = [geom EXCEPT ![m] = g]
    /\ scanBase' = -1
    /\ UNCHANGED <<pc, scenes_mod, args, cast, scene_classes, idx, issues, step,
                   reported_overlaps, reported_oob, mobjects, batch_left, validated,
                   plays, scans, call, ok, exit_code>>

\* a validate() that goes on to the next scene without the scan of line 227
FinalCheck_NoScan(iss, how) ==
    /\ issues' = iss
    /\ scanBase' = -1
    /\ validated' = [validated EXCEPT ![Len(validated)].routine = how]
    /\ idx' = idx + 1
    /\ IF idx < Len(scene_classes)
       THEN /\ pc' = "loop"
            /\ UNCHANGED <<ok, exit_code>>
       ELSE /\ pc' = "exited"
            /\ ok' = report(iss)
            /\ exit_code' = IF report(iss) THEN 0 ELSE 1
    /\ UNCHANGED <<scenes_mod, args, cast, scene_classes, step, mobjects, geom,
                   batch_left, plays, scans, call, reported_oob, reported_overlaps>>

\* a final scan that takes off the scene the elements it cannot measure
FinalCheck_DropsUnmeasured(iss, how) ==
    \E v \in {Scanned(mobjects, geom, iss, step)} :
        /\ reported_oob' = v.oob
        /\ reported_overlaps' = v.ovl
        /\ issues' = v.issues
        /\ scanBase' = Len(iss)
        /\ scans' = scans + 1
        /\ mobjects' = SelectSeq(mobjects,
                                 LAMBDA m : get_bbox(geom[m], cast.submobjects[m]) # None)
        /\ validated' = [validated EXCEPT ![Len(validated)].routine = how]
        /\ idx' = idx + 1
        /\ IF idx < Len(scene_classes)
           THEN /\ pc' = "loop"
                /\ UNCHANGED <<ok, exit_code>>
           ELSE /\ pc' = "exited"
                /\ ok' = report(v.issues)
                /\ exit_code' = IF report(v.issues) THEN 0 ELSE 1
        /\ UNCHANGED <<scenes_mod, args, cast, scene_classes, step, geom,
                       batch_left, plays, call>>

\* lines 226-229: the final scan of the frame, the tracker holding iss; then
\* main goes on (line 340) to the next scene or, after the last, reports and
\* exits (lines 344-345)
FinalCheck(iss, how) ==
    \E v \in {Scanned(mobjects, geom, iss, step)} :
        /\ reported_oob' = v.oob
        /\ reported_overlaps' = v.ovl
        /\ issues' = v.issues
        /\ scanBase' = Len(iss)
        /\ scans' = scans + 1
        /\ validated' = [validated EXCEPT ![Len(validated)].routine = how]
        /\ idx' = idx + 1
        /\ IF idx < Len(scene_classes)
           THEN /\ pc' = "loop"
                /\ UNCHANGED <<ok, exit_code>>
           ELSE /\ pc' = "exited"
                /\ ok' = report(v.issues)
                /\ exit_code' = IF report(v.issues) THEN 0 ELSE 1
        /\ UNCHANGED <<scenes_mod, args, cast, scene_classes, step, mobjects, geom,
                       batch_left, plays, call>>

\* line 219: the routine returns
RoutineReturns ==
    /\ pc = "construct"
    /\ FinalCheck(issues, "returned")

\* an except clause that swallows the failure
RoutineRaises_Unrecorded ==
    /\ pc = "construct"
    /\ FinalCheck(issues, "raised")

\* lines 220-224: the routine raises between two of its calls
RoutineRaises ==
    /\ pc = "construct"
    /\ FinalCheck(add(issues, "ERROR", scene_name, step, [kind |-> "CONSTRUCT"], <<>>),
                  "raised")

Next ==
    \/ ImportFails
    \/ ImportOk
    \/ Discover
    \/ StartScene
    \/ SceneCtorRaises
    \/ PlayCall
    \/ PlayArg
    \/ Wait
    \/ RoutineAdds
    \/ RoutineRemoves
    \/ RoutineMoves
    \/ RoutineReturns
    \/ RoutineRaises

Spec == Init /\ [][Next]_vars

(***************************************************************************)
(* One call of the routine under observation: the routine of Scene1 has    *)
(* made all its play calls but one on an empty scene and has then put      *)
(* elements on the scene and moved them; its next calls are recorded.      *)
(***************************************************************************)

RECURSIVE Frames(_, _)
\* the lists of n distinct elements of a set: what scene.mobjects may be
Frames(elems, n) ==
    IF n = 0 THEN {<<>>}
    ELSE {Append(f, m) : f \in Frames(elems, n - 1), m \in elems} \cap
         {f \in Seq(elems) : \A i, j \in 1 .. Len(f) : i # j => f[i] # f[j]}

InitPlay ==
    /\ scenes_mod = ModOne
    /\ args = [scene |-> NoScene, overlap_threshold |-> 3]
    /\ cast = CastStage
    /\ pc = "construct"
    /\ scene_classes = <<"Scene1">>
    /\ idx = 1
    /\ issues = <<>>
    /\ step = MaxPlays - 1
    /\ plays = MaxPlays - 1
    /\ scans = MaxPlays - 1
    /\ reported_overlaps = {}
    /\ reported_oob = {}
    /\ mobjects \in UNION {Frames(cast.elems, n) : n \in 0 .. Cardinality(cast.elems)}
    /\ geom \in [Elems -> UNION {cast.geoms[m] \cup {cast.start[m]} : m \in Elems}]
    /\ \A m \in Elems : geom[m] \in cast.geoms[m] \cup {cast.start[m]}
    /\ batch_left = 0
    /\ scanBase = -1
    /\ validated = <<[scene |-> "Scene1", routine |-> "running"]>>
    /\ call = [op |-> "none", on |-> TRUE]
    /\ ok = FALSE
    /\ exit_code = -1

NextPlay ==
    \/ PlayCall
    \/ PlayArg
    \/ Wait

SpecPlay == InitPlay /\ [][NextPlay]_vars

(***************************************************************************)
(* The issue tracker alone, in the hands of any client: a tracker is made  *)
(* (line 338) and then records are added to it and reports are asked of    *)
(* it in any order.                                                        *)
(***************************************************************************)

\* what a client may hand to add
TrackerArgs ==
    [severity : {"ERROR", "WARN"}, scene_name : {"Scene1", "Scene2"}, step : {0},
     msg : {[kind |-> "CONSTRUCT"]}]

InitTracker ==
    /\ scenes_mod = ModTwo
    /\ args = [scene |-> NoScene, overlap_threshold |-> 3]
    /\ cast = CastPlain
    /\ pc = "loop"
    /\ scene_classes = <<"Scene1", "Scene2">>
    /\ idx = 1
    /\ issues = <<>>
    /\ step = 0
    /\ plays = 0
    /\ scans = 0
    /\ reported_overlaps = {}
    /\ reported_oob = {}
    /\ mobjects = <<>>
    /\ geom = [m \in Elems |-> cast.start[m]]
    /\ batch_left = 0
    /\ scanBase = -1
    /\ validated = <<>>
    /\ call = [op |-> "none", on |-> TRUE]
    /\ ok = FALSE
    /\ exit_code = -1

\* lines 130-131: tracker.add(severity, scene_name, step, msg)
TrackerAdd ==
    /\ Len(issues) < MaxIssues
    /\ \E a \in TrackerArgs :
         /\ issues' = add(issues, a.severity, a.scene_name, a.step, a.msg, <<>>)
         /\ call' = [op |-> "add", on |-> TRUE, issues |-> issues,
                     record |-> [severity |-> a.severity, scene_name |-> a.scene_name,
                                 step |-> a.step, msg |-> a.msg, mobs |-> <<>>]]
    /\ UNCHANGED <<pc, scenes_mod, args, cast, scene_classes, idx, step,
                   reported_overlaps, reported_oob, mobjects, geom, batch_left,
                   scanBase, validated, plays, scans, ok, exit_code>>

\* lines 133-160: tracker.report()
TrackerReport ==
    /\ ok' = report(issues)
    /\ call' = [op |-> "report", on |-> TRUE, issues |-> issues]
    /\ UNCHANGED <<pc, scenes_mod, args, cast, scene_classes, idx, issues, step,
                   reported_overlaps, reported_oob, mobjects, geom, batch_left,
                   scanBase, validated, plays, scans, exit_code>>

NextTracker ==
    \/ TrackerAdd
    \/ TrackerReport

SpecTracker == InitTracker /\ [][NextTracker]_vars

(***************************************************************************)
(* The geometry helpers alone: two boxes are drawn; overlap_ratio is       *)
(* called on them, and a frame of two unrelated elements with these boxes  *)
(* is scanned under the default threshold.                                 *)
(***************************************************************************)

\* the boxes get_corner can answer: left <= right, bottom <= top
Boxes ==
    {bbox \in (0 .. MaxCoord) \X (0 .. MaxCoord) \X (0 .. MaxCoord) \X (0 .. MaxCoord) :
        bbox[1] <= bbox[2] /\ bbox[3] <= bbox[4]}

InitGeometry ==
    /\ scenes_mod = ModOne
    /\ args = [scene |-> NoScene, overlap_threshold |-> 3]
    /\ cast = CastOverlaps
    /\ pc = "construct"
    /\ scene_classes = <<"Scene1">>
    /\ idx = 1
    /\ issues = <<>>
    /\ step = 0
    /\ plays = 0
    /\ scans = 0
    /\ reported_overlaps = {}
    /\ reported_oob = {}
    /\ mobjects = <<>>
    /\ geom = [m \in Elems |-> cast.start[m]]
    /\ batch_left = 0
    /\ scanBase = -1
    /\ validated = <<[scene |-> "Scene1", routine |-> "running"]>>
    /\ \E a, b \in Boxes : call = [op |-> "boxes", on |-> TRUE, a |-> a, b |-> b]
    /\ ok = FALSE
    /\ exit_code = -1

\* overlap_ratio(a, b), and _check_frame on the elements 1 and 2 with the boxes
\* a and b, nothing reported before
CompareBoxes ==
    /\ call.op = "boxes"
    /\ \E a \in {call.a} : \E b \in {call.b} :
         call' = [op |-> "overlap_ratio", on |-> TRUE, a |-> a, b |-> b,
                  ratio |-> overlap_ratio(a, b),
                  found |-> check_frame(cast, <<1, 2>>,
                                        [m \in Elems |->
                                            IF m = 1
                                            THEN Geo(TRUE, TRUE, a[1], a[2], a[3], a[4])
                                            ELSE Geo(TRUE, TRUE, b[1], b[2], b[3], b[4])],
                                        [oob |-> {}, ovl |-> {}, issues |-> <<>>],
                                        "Scene1", 1, args.overlap_threshold).issues]
    /\ UNCHANGED <<pc, scenes_mod, args, cast, scene_classes, idx, issues, step,
                   reported_overlaps, reported_oob, mobjects, geom, batch_left,
                   scanBase, validated, plays, scans, ok, exit_code>>

NextGeometry == CompareBoxes

SpecGeometry == InitGeometry /\ [][NextGeometry]_vars

(***************************************************************************)
(* is_oob alone (lines 85-96), on boxes whose sides lie at, next to and    *)
(* away from the frame extended by EDGE_TOL.                               *)
(***************************************************************************)

\* the sides tried: one thousandth beyond the extended frame, on it, well
\* inside and (left only) well outside
EdgeXs == {-8000, -HALF_W - EDGE_TOL - 1, -HALF_W - EDGE_TOL, -6000,
           HALF_W + EDGE_TOL, HALF_W + EDGE_TOL + 1}
EdgeYs == {-HALF_H - EDGE_TOL - 1, -HALF_H - EDGE_TOL, -1000, 1000,
           HALF_H + EDGE_TOL, HALF_H + EDGE_TOL + 1}

EdgeBoxes ==
    {bbox \in EdgeXs \X EdgeXs \X EdgeYs \X EdgeYs :
        bbox[1] <= bbox[2] /\ bbox[3] <= bbox[4]}

InitOob ==
    /\ scenes_mod = ModOne
    /\ args = [scene |-> NoScene, overlap_threshold |-> 3]
    /\ cast = CastEdges
    /\ pc = "construct"
    /\ scene_classes = <<"Scene1">>
    /\ idx = 1
    /\ issues = <<>>
    /\ step = 0
    /\ plays = 0
    /\ scans = 0
    /\ reported_overlaps = {}
    /\ reported_oob = {}
    /\ mobjects = <<>>
    /\ geom = [m \in Elems |-> cast.start[m]]
    /\ batch_left = 0
    /\ scanBase = -1
    /\ validated = <<[scene |-> "Scene1", routine |-> "running"]>>
    /\ \E a \in EdgeBoxes : call = [op |-> "box", on |-> TRUE, a |-> a]
    /\ ok = FALSE
    /\ exit_code = -1

\* is_oob(a)
CheckOob ==
    /\ call.op = "box"
    /\ \E a \in {call.a} :
         call' = [op |-> "is_oob", on |-> TRUE, a |-> a, violations |-> is_oob(a)]
    /\ UNCHANGED <<pc, scenes_mod, args, cast, scene_classes, idx, issues, step,
                   reported_overlaps, reported_oob, mobjects, geom, batch_left,
                   scanBase, validated, plays, scans, ok, exit_code>>

NextOob == CheckOob

SpecOob == InitOob /\ [][NextOob]_vars

(***************************************************************************)
(* _is_ancestor alone (lines 284-294), on the families three elements can  *)
(* form.                                                                   *)
(***************************************************************************)

\* the submobjects an element can have: none, one or two of the others, in
\* either order
SubLists(m) ==
    {<<>>} \cup {<<x>> : x \in Elems \ {m}}
           \cup ({<<x, y>> : x, y \in Elems \ {m}} \ {<<x, x>> : x \in Elems})

\* the families without a cycle (Mobject.add refuses the element itself, and
\* the framework's own traversals do not end on a cycle): a child ranks
\* after its parent
Families ==
    {subs \in [Elems -> UNION {SubLists(m) : m \in Elems}] :
        /\ \A m \in Elems : subs[m] \in SubLists(m)
        /\ \E rank \in [Elems -> Elems] :
              \A m \in Elems : \A k \in 1 .. Len(subs[m]) : rank[subs[m][k]] > rank[m]}

InitAncestor ==
    /\ scenes_mod = ModOne
    /\ args = [scene |-> NoScene, overlap_threshold |-> 3]
    /\ \E subs \in Families :
         cast = [elems |-> Elems,
                 label |-> <<1, 2, 3>>,
                 submobjects |-> <<subs[1], subs[2], subs[3]>>,
                 geoms |-> << {GeoA}, {GeoA}, {GeoA} >>,
                 start |-> <<GeoA, GeoA, GeoA>>]
    /\ pc = "construct"
    /\ scene_classes = <<"Scene1">>
    /\ idx = 1
    /\ issues = <<>>
    /\ step = 0
    /\ plays = 0
    /\ scans = 0
    /\ reported_overlaps = {}
    /\ reported_oob = {}
    /\ mobjects = <<>>
    /\ geom = [m \in Elems |-> GeoA]
    /\ batch_left = 0
    /\ scanBase = -1
    /\ validated = <<[scene |-> "Scene1", routine |-> "running"]>>
    /\ \E a, m \in Elems : call = [op |-> "pair", on |-> TRUE, a |-> a, m |-> m]
    /\ ok = FALSE
    /\ exit_code = -1

\* _is_ancestor(a, m)
CheckAncestor ==
    /\ call.op = "pair"
    /\ \E a \in {call.a} : \E m \in {call.m} :
         call' = [op |-> "is_ancestor", on |-> TRUE, a |-> a, m |-> m,
                  result |-> is_ancestor(cast, a, m)]
    /\ UNCHANGED <<pc, scenes_mod, args, cast, scene_classes, idx, issues, step,
                   reported_overlaps, reported_oob, mobjects, geom, batch_left,
                   scanBase, validated, plays, scans, ok, exit_code>>

NextAncestor == CheckAncestor

SpecAncestor == InitAncestor /\ [][NextAncestor]_vars

(***************************************************************************)
(* Vocabulary of the properties.  None of it is used by the actions.       *)
(***************************************************************************)

\* the scene whose validation began last
CurScene == validated[Len(validated)].scene

\* the issues of one scene, as positions in the tracker
IssuesOf(scene) == {k \in 1 .. Len(issues) : issues[k].scene_name = scene}

\* main got to report(): every discovered scene was handed to validate() and
\* validate() returned
Reported ==
    /\ pc = "exited"
    /\ Len(scene_classes) > 0
    /\ idx > Len(scene_classes)

\* the state is the one a scan left: the positions of the issues it added
JustScanned == scanBase >= 0
NewIssues == IF JustScanned THEN (scanBase + 1) .. Len(issues) ELSE {}

\* an entry of the module that the discovery criteria admit
Admitted(e) ==
    /\ e.is_scene /\ e.own /\ e.prefix
    /\ args.scene \in {NoScene, e.name}

\* the box the scan measures of element m in the current state, if any
Measurable(m) ==
    /\ geom[m].ok
    /\ geom[m].pts \/ cast.submobjects[m] # <<>>
    /\ (geom[m].r - geom[m].l) * 100 >= 1
    /\ (geom[m].t - geom[m].b) * 100 >= 1
BoxOf(m) == <<geom[m].l, geom[m].r, geom[m].b, geom[m].t>>

\* b is a submobject of a; a contains b at any depth (the casts nest three deep at most)
ChildOf(a, b) == \E k \in 1 .. Len(cast.submobjects[a]) : cast.submobjects[a][k] = b
Contains(a, b) ==
    \/ ChildOf(a, b)
    \/ \E x \in Elems : ChildOf(a, x) /\ ChildOf(x, b)
    \/ \E x, y \in Elems : ChildOf(a, x) /\ ChildOf(x, y) /\ ChildOf(y, b)
Related(a, b) == Contains(a, b) \/ Contains(b, a)

\* the pairs the overlap pass compares: two measurable elements of the
\* snapshot, the first ahead of the second
ComparedPairs ==
    {p \in (1 .. Len(mobjects)) \X (1 .. Len(mobjects)) :
        p[1] < p[2] /\ Measurable(mobjects[p[1]]) /\ Measurable(mobjects[p[2]])}

\* the overlap ratio of two elements of the current state exceeds tenths / 10
RatioOver(a, b, tenths) ==
    LET ratio == overlap_ratio(BoxOf(a), BoxOf(b))
    IN  ratio[1] * 10 > tenths * ratio[2]

LabelPair(a, b) == {cast.label[a], cast.label[b]}
IsOverlap(k) == issues[k].msg.kind = "OVERLAP"
IsOob(k) == issues[k].msg.kind = "OOB"
IsFailure(k) == issues[k].msg.kind = "CONSTRUCT"
EdgesOf(violations) == {violations[n][1] : n \in 1 .. Len(violations)}

(***************************************************************************)
(* C1  The exit status is 0 exactly when main reached the report with an   *)
(* empty tracker.  It is 1 when an issue was recorded, when the module     *)
(* cannot be imported, and when no entry of the module meets the discovery *)
(* criteria (an explicitly named scene that does not exist included).      *)
(* While the process runs it has no status.                                *)
(***************************************************************************)
C1_ExitStatus ==
    /\ pc # "exited" => exit_code = -1
    /\ pc = "exited" =>
        /\ exit_code \in {0, 1}
        /\ exit_code = 0 <=> (Reported /\ Len(issues) = 0)
        /\ Len(issues) > 0 => exit_code = 1
        /\ ~scenes_mod.importable => exit_code = 1
        /\ (~\E e \in scenes_mod.dir : Admitted(e)) => exit_code = 1

\* two scenes were validated, no issue was found, and the process exited 0
C1_Witness ==
    /\ pc = "exited"
    /\ exit_code = 0
    /\ Len(validated) = 2

(***************************************************************************)
(* C2  Whatever was added to the tracker, from whichever scenes, report()  *)
(* returned true if and only if the tracker holds no issue.                *)
(***************************************************************************)
C2_ReportVerdict == Reported => (ok <=> Len(issues) = 0)

\* report() returned false on a tracker holding issues of two scenes
C2_Witness ==
    /\ Reported
    /\ ~ok
    /\ \E j, k \in 1 .. Len(issues) : issues[j].scene_name # issues[k].scene_name

(***************************************************************************)
(* C3  Once the routine of the first scene has run, the process ends only  *)
(* by way of the report, every discovered scene having been validated,     *)
(* whatever failed inside a scene.                                         *)
(***************************************************************************)
C3_AlwaysReports ==
    (pc = "exited" /\ Len(validated) > 0 /\ validated[1].routine \in {"returned", "raised"})
    => /\ Reported
       /\ Len(validated) = Len(scene_classes)
       /\ \A k \in 1 .. Len(validated) : validated[k].routine \in {"returned", "raised"}

(***************************************************************************)
(* C4  The failure of a scene's routine is recorded as exactly one issue   *)
(* of that scene, an ERROR; a routine that returns, or still runs, has     *)
(* none.                                                                   *)
(***************************************************************************)
C4_OneErrorPerFailure ==
    \A n \in 1 .. Len(validated) :
        LET failures == {k \in IssuesOf(validated[n].scene) : IsFailure(k)}
        IN  /\ Cardinality(failures) = IF validated[n].routine = "raised" THEN 1 ELSE 0
            /\ \A k \in failures : issues[k].severity = "ERROR"

\* a routine raised after its second play call, the scans having found an
\* issue before
C4_Witness ==
    /\ Len(validated) > 0
    /\ validated[Len(validated)].routine = "raised"
    /\ step = 2
    /\ \E k \in IssuesOf(CurScene) : IsFailure(k) /\ issues[k].step = 2 /\ k > 1

(***************************************************************************)
(* C5  An overlap issue is recorded only for a ratio above the threshold;  *)
(* it is an ERROR when the ratio measured by the scan that records it is   *)
(* above 0.60 and a WARN otherwise.  Every issue of an element out of the  *)
(* frame is an ERROR.                                                      *)
(***************************************************************************)
C5_Severity ==
    /\ \A k \in 1 .. Len(issues) :
         /\ IsOob(k) => issues[k].severity = "ERROR"
         /\ IsOverlap(k) => issues[k].severity \in {"WARN", "ERROR"}
    /\ \A k \in NewIssues :
         IsOverlap(k) =>
            LET a == issues[k].mobs[1]
                b == issues[k].mobs[2]
            IN  /\ RatioOver(a, b, args.overlap_threshold)
                /\ issues[k].severity = IF RatioOver(a, b, 6) THEN "ERROR" ELSE "WARN"

\* one scan recorded a WARN overlap and an ERROR overlap
C5_Witness ==
    /\ \E k \in NewIssues : IsOverlap(k) /\ issues[k].severity = "WARN"
    /\ \E k \in NewIssues : IsOverlap(k) /\ issues[k].severity = "ERROR"

(***************************************************************************)
(* C6 as claimed  Under every threshold, after a scan every compared pair  *)
(* of unrelated elements whose ratio is above 0.60 has an ERROR overlap    *)
(* issue for its labels in the current scene.                              *)
(***************************************************************************)
C6_AlwaysEscalated ==
    JustScanned =>
        \A p \in ComparedPairs :
            LET a == mobjects[p[1]]
                b == mobjects[p[2]]
            IN  (~Related(a, b) /\ RatioOver(a, b, 6)) =>
                    \E k \in IssuesOf(CurScene) :
                        /\ IsOverlap(k)
                        /\ {issues[k].msg.l1, issues[k].msg.l2} = LabelPair(a, b)
                        /\ issues[k].severity = "ERROR"

(***************************************************************************)
(* C6 as amended  After a scan every compared pair of unrelated elements   *)
(* whose ratio is above 0.60 and above the threshold has exactly one       *)
(* overlap issue for its labels in the current scene; the issue is an      *)
(* ERROR if this scan recorded it from this pair (one recorded before, or  *)
(* from another pair of the same labels, keeps its severity).              *)
(***************************************************************************)
C6_EscalatedWhenRecorded ==
    JustScanned =>
        \A p \in ComparedPairs :
            LET a == mobjects[p[1]]
                b == mobjects[p[2]]
                found == {k \in IssuesOf(CurScene) :
                            /\ IsOverlap(k)
                            /\ {issues[k].msg.l1, issues[k].msg.l2} = LabelPair(a, b)}
            IN  (~Related(a, b) /\ RatioOver(a, b, 6) /\ RatioOver(a, b, args.overlap_threshold)) =>
                    /\ Cardinality(found) = 1
                    /\ \A k \in found :
                         (k \in NewIssues /\ issues[k].mobs = <<a, b>>)
                         => issues[k].severity = "ERROR"

\* a scan met a pair overlapping by more than 0.60 whose labels an earlier
\* scan had reported as a WARN
C6_Witness ==
    /\ JustScanned
    /\ \E p \in ComparedPairs :
         /\ ~Related(mobjects[p[1]], mobjects[p[2]])
         /\ RatioOver(mobjects[p[1]], mobjects[p[2]], 6)
         /\ \E k \in IssuesOf(CurScene) :
              /\ IsOverlap(k)
              /\ {issues[k].msg.l1, issues[k].msg.l2} = LabelPair(mobjects[p[1]], mobjects[p[2]])
              /\ issues[k].severity = "WARN"
              /\ k <= scanBase

(***************************************************************************)
(* C7 as claimed  Within one scene run, no two out-of-bounds issues have   *)
(* the same label and the same set of violated edges.                      *)
(***************************************************************************)
C7_OnePerLabelAndEdges ==
    \A j, k \in 1 .. Len(issues) :
        (/\ j < k
         /\ IsOob(j) /\ IsOob(k)
         /\ issues[j].scene_name = issues[k].scene_name
         /\ issues[j].msg.label = issues[k].msg.label)
        => EdgesOf(issues[j].msg.violations) # EdgesOf(issues[k].msg.violations)

(***************************************************************************)
(* C7 as amended  Within one scene run, no two out-of-bounds issues have   *)
(* the same label and the same violations, a violation being the edge      *)
(* with the offending coordinate as printed to two decimals; and after a   *)
(* scan every measured element beyond an edge has the issue of its label   *)
(* and violations.                                                         *)
(***************************************************************************)
C7_OnePerLabelAndViolations ==
    /\ \A j, k \in 1 .. Len(issues) :
         (/\ j < k
          /\ IsOob(j) /\ IsOob(k)
          /\ issues[j].scene_name = issues[k].scene_name
          /\ issues[j].msg.label = issues[k].msg.label)
         => issues[j].msg.violations # issues[k].msg.violations
    /\ JustScanned =>
         \A n \in 1 .. Len(mobjects) :
            (Measurable(mobjects[n]) /\ is_oob(BoxOf(mobjects[n])) # <<>>) =>
                \E k \in IssuesOf(CurScene) :
                    /\ IsOob(k)
                    /\ issues[k].msg.label = cast.label[mobjects[n]]
                    /\ issues[k].msg.violations = is_oob(BoxOf(mobjects[n]))

\* a scan measured two elements of one label beyond the left edge, at x =
\* -8.001 and at x = -8.004, and the scene has one out-of-bounds issue
C7_Witness ==
    /\ JustScanned
    /\ cast = CastEdges
    /\ InScene(mobjects, 1) /\ geom[1] = GeoL2
    /\ InScene(mobjects, 2) /\ geom[2] = GeoL1
    /\ Cardinality({k \in IssuesOf(CurScene) : IsOob(k)}) = 1

(***************************************************************************)
(* C8  Within one scene run, no two overlap issues name the same           *)
(* unordered pair of labels, whichever elements carry the labels and in    *)
(* whichever order the snapshot holds them.                                *)
(***************************************************************************)
C8_OnePerLabelPair ==
    \A j, k \in 1 .. Len(issues) :
        (/\ j < k
         /\ IsOverlap(j) /\ IsOverlap(k)
         /\ issues[j].scene_name = issues[k].scene_name)
        => {issues[j].msg.l1, issues[j].msg.l2} # {issues[k].msg.l1, issues[k].msg.l2}

\* a scan compared two pairs of one label pair, both over the threshold, the
\* element of the greater label ahead in the snapshot of one of them
C8_Witness ==
    /\ JustScanned
    /\ \E p, q \in ComparedPairs :
         /\ p # q
         /\ LabelPair(mobjects[p[1]], mobjects[p[2]]) = LabelPair(mobjects[q[1]], mobjects[q[2]])
         /\ cast.label[mobjects[p[1]]] > cast.label[mobjects[p[2]]]
         /\ ~Related(mobjects[p[1]], mobjects[p[2]])
         /\ ~Related(mobjects[q[1]], mobjects[q[2]])
         /\ RatioOver(mobjects[p[1]], mobjects[p[2]], args.overlap_threshold)
         /\ RatioOver(mobjects[q[1]], mobjects[q[2]], args.overlap_threshold)

(***************************************************************************)
(* C9  No overlap issue comes of comparing two elements one of which       *)
(* contains the other, directly or through other elements.                 *)
(***************************************************************************)
C9_AncestorsExempt ==
    \A k \in 1 .. Len(issues) :
        IsOverlap(k) => ~Related(issues[k].mobs[1], issues[k].mobs[2])

\* a scan compared a group with the child of its child, the two boxes one
\* over the other, and recorded nothing
C9_Witness ==
    /\ JustScanned
    /\ NewIssues = {}
    /\ \E p \in ComparedPairs :
         /\ Related(mobjects[p[1]], mobjects[p[2]])
         /\ ~ChildOf(mobjects[p[1]], mobjects[p[2]])
         /\ ~ChildOf(mobjects[p[2]], mobjects[p[1]])
         /\ RatioOver(mobjects[p[1]], mobjects[p[2]], 6)

(***************************************************************************)
(* C10  No issue a scan records is about an element that the scan cannot   *)
(* measure: one of zero width or height, one without points and without    *)
(* children, one whose corner query raises.                                *)
(***************************************************************************)
C10_DegenerateIgnored ==
    \A k \in NewIssues :
        \A n \in 1 .. Len(issues[k].mobs) : Measurable(issues[k].mobs[n])

\* a scan met an element of zero width that lies over another and reaches
\* beyond the top edge
C10_Witness ==
    /\ JustScanned
    /\ Len(mobjects) = 2
    /\ \E n \in 1 .. 2 : geom[mobjects[n]] = GeoZ
    /\ \E n \in 1 .. 2 : Measurable(mobjects[n])

\* the routine of the scene validated last has ended, and the final scan is made
RoutineEnded ==
    /\ Len(validated) > 0
    /\ validated[Len(validated)].routine \in {"returned", "raised"}

(***************************************************************************)
(* C11 as claimed  When the routine of a scene has ended and the final     *)
(* scan is made, the step counter is one more than the play calls the      *)
(* routine made, and the issues the final scan found carry that step.      *)
(***************************************************************************)
C11_FinalScanCounted ==
    RoutineEnded =>
        /\ step = plays + 1
        /\ \A k \in NewIssues : issues[k].step = plays + 1

(***************************************************************************)
(* C11 as amended  Within a scene run the step counter never decreases and *)
(* counts the play calls completed, whatever the number of animations in   *)
(* a call; the final scan does not count: after a scene whose routine made *)
(* n play calls the counter is n, and the issues a scan finds, the final   *)
(* one included, carry the counter's value.                                *)
(***************************************************************************)
C11_StepCountsPlayCalls ==
    /\ [](step = plays - (IF pc = "play" THEN 1 ELSE 0))
    /\ [](\A k \in NewIssues : issues[k].step = step)
    /\ [][step' >= step \/ Len(validated') > Len(validated)]_vars

\* a routine made two play calls and ended; the final scan found an issue,
\* as the scan of the first call had
C11_Witness ==
    /\ RoutineEnded
    /\ plays = 2
    /\ \E k \in NewIssues : issues[k].step = 2
    /\ \E k \in IssuesOf(CurScene) : issues[k].step = 1

(***************************************************************************)
(* C12  A wait call leaves the step counter, the scene snapshot, the       *)
(* geometry of the elements, both dedup sets and the issue tracker as      *)
(* they were, and what the last scan left is still the last scan's: no     *)
(* scan is made, whatever the frame would show.                            *)
(***************************************************************************)
C12_WaitIsNoOp ==
    call.op = "wait" =>
        /\ step = call.step
        /\ mobjects = call.mobjects
        /\ geom = call.geom
        /\ reported_oob = call.reported_oob
        /\ reported_overlaps = call.reported_overlaps
        /\ issues = call.issues
        /\ scanBase = call.scanBase
        /\ pc = "construct"

\* the routine waited while the scene held an element beyond an edge that no
\* scan had seen yet
C12_Witness ==
    /\ call.op = "wait"
    /\ issues = <<>>
    /\ \E n \in 1 .. Len(mobjects) :
         Measurable(mobjects[n]) /\ is_oob(BoxOf(mobjects[n])) # <<>>

\* the observed call is a play call, and it has returned
PlayReturned == call.op = "play" /\ pc = "construct"

\* argument k of the observed play call is an animation of an element
Animates(k) == call.batch[k].is_animation /\ call.batch[k].mobject # NoMob

(***************************************************************************)
(* C13  Whatever stage of whichever animation of a play call raises, the   *)
(* call goes on: every argument handed to it is processed in turn, the     *)
(* routine keeps running and no failure is recorded; when the call returns *)
(* the step has been counted once and the frame scanned, the issues added  *)
(* being findings of the scan only.                                        *)
(***************************************************************************)
C13_RaiseStaysInBatch ==
    call.op = "play" =>
        /\ batch_left = call.n - Len(call.batch)
        /\ pc = (IF batch_left > 0 THEN "play" ELSE "construct")
        /\ validated[Len(validated)].routine = "running"
        /\ \A k \in 1 .. Len(issues) : ~IsFailure(k)
        /\ pc = "play" => (step = call.step /\ issues = call.issues)
        /\ pc = "construct" =>
            /\ step = call.step + 1
            /\ scanBase = Len(call.issues)
            /\ SubSeq(issues, 1, scanBase) = call.issues
            /\ \A k \in NewIssues :
                 (IsOob(k) \/ IsOverlap(k)) /\ issues[k].step = step
            /\ \A n \in 1 .. Len(mobjects) :
                 (Measurable(mobjects[n]) /\ is_oob(BoxOf(mobjects[n])) # <<>>) =>
                     \E k \in 1 .. Len(issues) :
                         /\ IsOob(k)
                         /\ issues[k].msg.label = cast.label[mobjects[n]]
                         /\ issues[k].msg.violations = is_oob(BoxOf(mobjects[n]))

\* the first animation of a play call raised in one of its stages; the second,
\* of another element, took that element beyond an edge, and the scan found it
C13_Witness ==
    /\ PlayReturned
    /\ call.n = 2
    /\ Animates(1) /\ call.batch[1].raises > 0
    /\ Animates(2) /\ call.batch[2].raises = 0
    /\ call.batch[2].mobject # call.batch[1].mobject
    /\ is_oob(BoxOf(call.batch[2].mobject)) # <<>>
    /\ is_oob(<<call.geom[call.batch[2].mobject].l, call.geom[call.batch[2].mobject].r,
                call.geom[call.batch[2].mobject].b, call.geom[call.batch[2].mobject].t>>) = <<>>
    /\ \E k \in NewIssues : IsOob(k)

(***************************************************************************)
(* C14  A scene whose routine has made no play call yet has step 0 and     *)
(* empty dedup sets.  The dedup sets hold the keys of the current scene's  *)
(* findings and no others, so that after a scan every element beyond an    *)
(* edge and every compared pair of unrelated elements over the threshold   *)
(* has its issue in the current scene, whatever the scenes before          *)
(* reported.                                                               *)
(***************************************************************************)
C14_FreshPerScene ==
    Len(validated) > 0 =>
        /\ (validated[Len(validated)].routine = "running" /\ plays = 0) =>
                (step = 0 /\ reported_oob = {} /\ reported_overlaps = {})
        /\ reported_oob =
                {OobKey(issues[k].msg.label, issues[k].msg.violations) :
                    k \in {j \in IssuesOf(CurScene) : IsOob(j)}}
        /\ reported_overlaps =
                {OverlapKey(issues[k].msg.l1, issues[k].msg.l2) :
                    k \in {j \in IssuesOf(CurScene) : IsOverlap(j)}}
        /\ JustScanned =>
            /\ \A n \in 1 .. Len(mobjects) :
                 (Measurable(mobjects[n]) /\ is_oob(BoxOf(mobjects[n])) # <<>>) =>
                     \E k \in IssuesOf(CurScene) :
                         /\ IsOob(k)
                         /\ issues[k].msg.label = cast.label[mobjects[n]]
                         /\ issues[k].msg.violations = is_oob(BoxOf(mobjects[n]))
            /\ \A p \in ComparedPairs :
                 (/\ ~Related(mobjects[p[1]], mobjects[p[2]])
                  /\ RatioOver(mobjects[p[1]], mobjects[p[2]], args.overlap_threshold)) =>
                     \E k \in IssuesOf(CurScene) :
                         /\ IsOverlap(k)
                         /\ {issues[k].msg.l1, issues[k].msg.l2} =
                                LabelPair(mobjects[p[1]], mobjects[p[2]])

\* the second scene has made two play calls with an element beyond an edge
\* that the first scene had reported, and has the issue too, once
C14_Witness ==
    /\ Len(validated) = 2
    /\ plays = 2
    /\ JustScanned
    /\ NewIssues = {}
    /\ \E j \in IssuesOf(validated[1].scene) : \E k \in IssuesOf(validated[2].scene) :
         IsOob(j) /\ issues[j].msg = issues[k].msg
    /\ Cardinality(IssuesOf(validated[2].scene)) = 1

(***************************************************************************)
(* C15  No step of the tracker removes, reorders or changes a record it    *)
(* holds.  An add leaves the tracker with the records it had, in their     *)
(* order, and the record added after them, also when the tracker held an   *)
(* equal record already.  A report leaves the tracker as it was.           *)
(***************************************************************************)
C15_AppendOnly ==
    /\ [][/\ Len(issues') >= Len(issues)
           /\ SubSeq(issues', 1, Len(issues)) = issues]_vars
    /\ [](call.op = "add" => issues = Append(call.issues, call.record))
    /\ [](call.op = "report" => issues = call.issues)

\* a record was added to a tracker that held an equal record already
C15_Witness ==
    /\ call.op = "add"
    /\ Len(issues) = Len(call.issues) + 1
    /\ \E k \in 1 .. Len(call.issues) : call.issues[k] = call.record

\* two ratios are the same number
SameRatio(q1, q2) == q1[1] * q2[2] = q2[1] * q1[2]

\* the width and the height of what two boxes have in common (<= 0: nothing)
CommonWidth(b1, b2) == Min(b1[2], b2[2]) - Max(b1[1], b2[1])
CommonHeight(b1, b2) == Min(b1[4], b2[4]) - Max(b1[3], b2[3])
AreaOf(bbox) == (bbox[2] - bbox[1]) * (bbox[4] - bbox[3])
Inside(b1, b2) == b2[1] <= b1[1] /\ b1[2] <= b2[2] /\ b2[3] <= b1[3] /\ b1[4] <= b2[4]

(***************************************************************************)
(* C16  overlap_ratio(a, b) is the number overlap_ratio(b, a) is, for all  *)
(* boxes a and b.                                                          *)
(***************************************************************************)
C16_Symmetric ==
    call.op = "overlap_ratio" => SameRatio(call.ratio, overlap_ratio(call.b, call.a))

\* the ratio of two boxes of different areas that overlap in part
C16_Witness ==
    /\ call.op = "overlap_ratio"
    /\ AreaOf(call.a) # AreaOf(call.b)
    /\ 0 < call.ratio[1]
    /\ call.ratio[1] < call.ratio[2]

(***************************************************************************)
(* C17  overlap_ratio(a, b) is the area the boxes have in common divided   *)
(* by the area of the smaller box; it is 0 when they have no width or no   *)
(* height in common (boxes that only touch included) and when the smaller  *)
(* area is 0; it lies in [0, 1]; it is 1 when the smaller box, of an area  *)
(* above 0, lies inside the other.  Two unrelated elements with the same   *)
(* box yield one overlap issue, an ERROR of 100%, at threshold 0.3.        *)
(***************************************************************************)
C17_RatioOfSmaller ==
    call.op = "overlap_ratio" =>
        LET a == call.a
            b == call.b
            smaller == Min(AreaOf(a), AreaOf(b))
            apart == CommonWidth(a, b) <= 0 \/ CommonHeight(a, b) <= 0
        IN  /\ call.ratio[2] > 0
            /\ 0 <= call.ratio[1] /\ call.ratio[1] <= call.ratio[2]
            /\ (apart \/ smaller = 0) => call.ratio[1] = 0
            /\ (~apart /\ smaller > 0) =>
                    call.ratio[1] * smaller = CommonWidth(a, b) * CommonHeight(a, b) * call.ratio[2]
            /\ (smaller > 0 /\ (Inside(a, b) \/ Inside(b, a))) => call.ratio[1] = call.ratio[2]
            /\ (a = b /\ smaller > 0) =>
                    /\ Len(call.found) = 1
                    /\ call.found[1].severity = "ERROR"
                    /\ call.found[1].msg.kind = "OVERLAP"
                    /\ call.found[1].msg.pct = 100

\* two elements with one box were scanned, and the ratio of the box to itself
\* is 1
C17_Witness ==
    /\ call.op = "overlap_ratio"
    /\ call.a = call.b
    /\ AreaOf(call.a) > 0
    /\ call.ratio[1] = call.ratio[2]
    /\ Len(call.found) = 1

\* the place of a name of the module in the sorted order of names
RankOf(name) == (CHOOSE e \in scenes_mod.dir : e.name = name).rank

(***************************************************************************)
(* C18  Once discovery is done, the scenes to validate are the admitted    *)
(* entries of the module in the sorted order of their names, with --scene  *)
(* NAME none but the one of exactly that name.  The validations begun are  *)
(* these scenes from the first on, each once, in that order; every one     *)
(* but the last begun has ended, its final scan made; and when main        *)
(* reports, all of them have been validated.                               *)
(***************************************************************************)
C18_SequentialInOrder ==
    (scenes_mod.importable /\ pc \notin {"import", "discover"}) =>
        /\ {scene_classes[k] : k \in 1 .. Len(scene_classes)} =
                {e.name : e \in {f \in scenes_mod.dir : Admitted(f)}}
        /\ \A j, k \in 1 .. Len(scene_classes) :
                j < k => RankOf(scene_classes[j]) < RankOf(scene_classes[k])
        /\ args.scene # NoScene =>
                \A k \in 1 .. Len(scene_classes) : scene_classes[k] = args.scene
        /\ Len(validated) <= Len(scene_classes)
        /\ \A k \in 1 .. Len(validated) : validated[k].scene = scene_classes[k]
        /\ \A k \in 1 .. Len(validated) - 1 : validated[k].routine \in {"returned", "raised"}
        /\ pc \in {"construct", "play"} =>
                (idx = Len(validated) /\ validated[idx].routine = "running")
        /\ pc = "loop" => idx = Len(validated) + 1
        /\ Reported =>
                /\ Len(validated) = Len(scene_classes)
                /\ \A k \in 1 .. Len(validated) : validated[k].routine \in {"returned", "raised"}

\* of two scenes discovered the first was validated, its routine failing, and
\* the routine of the second has made a play call
C18_Witness ==
    /\ Len(scene_classes) = 2
    /\ Len(validated) = 2
    /\ validated[1].routine = "raised"
    /\ validated[2].routine = "running"
    /\ plays = 1
    /\ pc = "construct"

(***************************************************************************)
(* C19  The element of every animation of a play call that has been        *)
(* processed is on the scene from then on to the scan that ends the call:  *)
(* whether it was on the scene before or not, whether the animation's      *)
(* finish took it off, whether a stage raised, and whatever animations     *)
(* the call processed after it.                                            *)
(***************************************************************************)
C19_TargetsRegistered ==
    call.op = "play" =>
        /\ \A k \in 1 .. Len(call.batch) :
             Animates(k) => InScene(mobjects, call.batch[k].mobject)
        /\ PlayReturned => JustScanned

\* a play call on an empty scene has returned: the finish of its first
\* animation took the element off the scene, a stage of its second, of
\* another element, raised
C19_Witness ==
    /\ PlayReturned
    /\ call.mobjects = <<>>
    /\ call.n = 2
    /\ Animates(1) /\ call.batch[1].remover /\ call.batch[1].raises = 0
    /\ Animates(2) /\ call.batch[2].raises > 0
    /\ call.batch[1].mobject # call.batch[2].mobject
    /\ Len(mobjects) = 2

RECURSIVE WithoutRaisers(_, _, _)
\* the scene and the geometry a play call leaves that is handed the arguments
\* of the observed call from the k-th on, those of which a stage raises left out
WithoutRaisers(k, mobs, g) ==
    IF k > Len(call.batch) THEN [mobjects |-> mobs, geom |-> g]
    ELSE IF Animates(k) /\ call.batch[k].raises > 0 THEN WithoutRaisers(k + 1, mobs, g)
    ELSE LET after == ProcessArg(call.batch[k], mobs, g)
         IN  WithoutRaisers(k + 1, after.mobjects, after.geom)

(***************************************************************************)
(* C20 as claimed  When a play call returns, the scene and the geometry    *)
(* of the elements that the scan has seen are what the call would have     *)
(* left had the animations of which a stage raised not been handed to it.  *)
(***************************************************************************)
C20_EffectSkipped ==
    PlayReturned =>
        /\ mobjects = WithoutRaisers(1, call.mobjects, call.geom).mobjects
        /\ geom = WithoutRaisers(1, call.mobjects, call.geom).geom

(***************************************************************************)
(* C21  The frame is scanned once at the end of every play call and once   *)
(* more when the routine has ended: while the routine runs the scans of    *)
(* the scene are as many as its completed play calls, and when it has      *)
(* returned or raised they are one more than its play calls.  The last     *)
(* scan comes after the routine's failure was recorded: the failure issue  *)
(* is the last entry the tracker held when the final scan began.  A scene  *)
(* whose constructor raised has no routine and no scan.                    *)
(***************************************************************************)
C21_OneFinalScan ==
    Len(validated) > 0 =>
        LET routine == validated[Len(validated)].routine IN
        /\ routine = "running" => scans = plays - (IF pc = "play" THEN 1 ELSE 0)
        /\ routine = "not run" => scans = 0
        /\ RoutineEnded =>
              /\ scans = plays + 1
              /\ JustScanned
              /\ routine = "raised" =>
                    /\ scanBase >= 1
                    /\ IsFailure(scanBase)
                    /\ issues[scanBase].scene_name = CurScene
                    /\ \A k \in NewIssues : ~IsFailure(k)

\* a routine raised after two play calls: the third scan of the scene is the
\* final one and found an issue, which follows the failure in the tracker
C21_Witness ==
    /\ RoutineEnded
    /\ validated[Len(validated)].routine = "raised"
    /\ plays = 2
    /\ scans = 3
    /\ NewIssues # {}
    /\ IsFailure(scanBase)

(***************************************************************************)
(* C22  is_oob reports LEFT exactly when the left side lies beyond the     *)
(* left edge of the frame by more than the tolerance, and RIGHT, BOTTOM    *)
(* and TOP likewise for the other three sides; it reports each edge at     *)
(* most once and no other violation.  A box within the frame extended by   *)
(* the tolerance, its boundary included, has no violation; the box from    *)
(* -8.0 to -6.0 and from -1 to 1 has the violation LEFT alone.             *)
(***************************************************************************)
C22_EdgesBeyondTolerance ==
    call.op = "is_oob" =>
        LET bbox == call.a
            violations == call.violations
            edges == EdgesOf(violations)
        IN  /\ "LEFT" \in edges <=> bbox[1] < -HALF_W - EDGE_TOL
            /\ "RIGHT" \in edges <=> bbox[2] > HALF_W + EDGE_TOL
            /\ "BOTTOM" \in edges <=> bbox[3] < -HALF_H - EDGE_TOL
            /\ "TOP" \in edges <=> bbox[4] > HALF_H + EDGE_TOL
            /\ edges \subseteq {"LEFT", "RIGHT", "BOTTOM", "TOP"}
            /\ Len(violations) = Cardinality(edges)
            /\ (/\ -HALF_W - EDGE_TOL <= bbox[1]
                /\ bbox[2] <= HALF_W + EDGE_TOL
                /\ -HALF_H - EDGE_TOL <= bbox[3]
                /\ bbox[4] <= HALF_H + EDGE_TOL) => violations = <<>>
            /\ bbox = <<-8000, -6000, -1000, 1000>> => edges = {"LEFT"}

\* the box from -8.0 to -6.0 and from -1 to 1 was given to is_oob, which
\* answered LEFT with the left side as printed
C22_Witness ==
    /\ call.op = "is_oob"
    /\ call.a = <<-8000, -6000, -1000, 1000>>
    /\ call.violations = << <<"LEFT", -8000>> >>

(***************************************************************************)
(* C23  _is_ancestor(a, m) is true exactly when m is reached from a by one *)
(* or more steps from an element to one of its submobjects.  No element    *)
(* of a family without a cycle is its own ancestor, and an element         *)
(* without submobjects is the ancestor of none.                            *)
(***************************************************************************)
C23_ProperAncestor ==
    call.op = "is_ancestor" =>
        /\ call.result <=> Contains(call.a, call.m)
        /\ call.a = call.m => ~call.result
        /\ cast.submobjects[call.a] = <<>> => ~call.result

\* 3 is found under 1 two steps down, and is not a submobject of 1 itself
C23_Witness ==
    /\ call.op = "is_ancestor"
    /\ call.a = 1
    /\ call.m = 3
    /\ call.result
    /\ ~ChildOf(1, 3)
    /\ ChildOf(1, 2)
    /\ ChildOf(2, 3)

\* the overlap issues of the current scene for the labels of a and b
OverlapsOf(a, b) ==
    {k \in IssuesOf(CurScene) :
        IsOverlap(k) /\ {issues[k].msg.l1, issues[k].msg.l2} = LabelPair(a, b)}

(***************************************************************************)
(* C24  When a scan meets a compared pair of unrelated elements whose      *)
(* ratio is above 0.60 and whose labels have a WARN overlap issue of the   *)
(* current scene from before the scan, the scan adds no overlap issue for  *)
(* those labels; and no step changes an issue the tracker holds, so the    *)
(* WARN stays a WARN.                                                      *)
(***************************************************************************)
C24_SeverityFixedAtFirstReport ==
    /\ [](JustScanned =>
            \A p \in ComparedPairs :
                LET a == mobjects[p[1]]
                    b == mobjects[p[2]]
                IN  (/\ ~Related(a, b)
                     /\ RatioOver(a, b, 6)
                     /\ \E k \in OverlapsOf(a, b) :
                          k <= scanBase /\ issues[k].severity = "WARN")
                    => OverlapsOf(a, b) \cap NewIssues = {})
    /\ [][/\ Len(issues') >= Len(issues)
          /\ \A k \in 1 .. Len(issues) : issues'[k] = issues[k]]_vars

\* the second scan of a scene met, above 0.60, the pair its first scan had
\* reported as a WARN; it added nothing, and the one issue is the WARN
C24_Witness ==
    /\ JustScanned
    /\ plays = 2
    /\ NewIssues = {}
    /\ \E p \in ComparedPairs :
         /\ ~Related(mobjects[p[1]], mobjects[p[2]])
         /\ RatioOver(mobjects[p[1]], mobjects[p[2]], 6)
         /\ \E k \in OverlapsOf(mobjects[p[1]], mobjects[p[2]]) :
              /\ issues[k].severity = "WARN"
              /\ issues[k].step = 1
              /\ OverlapsOf(mobjects[p[1]], mobjects[p[2]]) = {k}

(***************************************************************************)
(* C25  From the start of a scene's validation on, the out-of-bounds       *)
(* issues of the current scene are as many as the keys of the              *)
(* out-of-bounds dedup set and the overlap issues of the current scene as  *)
(* many as the keys of the overlap dedup set, and every key of either set  *)
(* is the key of an issue of the current scene.                            *)
(***************************************************************************)
C25_DedupSetsMatchTracker ==
    Len(validated) > 0 =>
        LET oob == {k \in IssuesOf(CurScene) : IsOob(k)}
            ovl == {k \in IssuesOf(CurScene) : IsOverlap(k)}
        IN  /\ Cardinality(oob) = Cardinality(reported_oob)
            /\ Cardinality(ovl) = Cardinality(reported_overlaps)
            /\ \A key \in reported_oob :
                  \E k \in oob : key = OobKey(issues[k].msg.label, issues[k].msg.violations)
            /\ \A key \in reported_overlaps :
                  \E k \in ovl : key = OverlapKey(issues[k].msg.l1, issues[k].msg.l2)

\* both dedup sets hold a key, and the last scan met findings it had the
\* keys of and added nothing
C25_Witness ==
    /\ JustScanned
    /\ NewIssues = {}
    /\ reported_oob # {}
    /\ reported_overlaps # {}
    /\ \E m \in cast.elems :
         InScene(mobjects, m) /\ Measurable(m) /\ is_oob(BoxOf(m)) # <<>>

\* the places of element m in the snapshot
PlacesOf(m) == {n \in 1 .. Len(mobjects) : mobjects[n] = m}

(***************************************************************************)
(* C26  Before, during and after a play call the snapshot holds every      *)
(* element at most once, so the pairs a scan compares are pairs of two     *)
(* different elements, and the two elements of an overlap issue are never  *)
(* one and the same.                                                       *)
(***************************************************************************)
C26_NoElementTwice ==
    /\ \A m \in Elems : Cardinality(PlacesOf(m)) <= 1
    /\ \A p \in ComparedPairs : mobjects[p[1]] # mobjects[p[2]]
    /\ \A k \in 1 .. Len(issues) : IsOverlap(k) => issues[k].mobs[1] # issues[k].mobs[2]

\* a play call was handed an animation of an element the snapshot held
\* already; when it returned the element was in the snapshot once, and the
\* scan reported it as overlapping the other element
C26_Witness ==
    /\ PlayReturned
    /\ \E k \in 1 .. Len(call.batch) :
         /\ Animates(k)
         /\ InScene(call.mobjects, call.batch[k].mobject)
         /\ Cardinality(PlacesOf(call.batch[k].mobject)) = 1
         /\ \E n \in NewIssues :
              /\ IsOverlap(n)
              /\ call.batch[k].mobject \in {issues[n].mobs[1], issues[n].mobs[2]}
              /\ issues[n].mobs[1] # issues[n].mobs[2]

\* the place of a scene among the validations begun
PlaceOf(scene) == CHOOSE n \in 1 .. Len(validated) : validated[n].scene = scene

(***************************************************************************)
(* C27  Every issue of the tracker is of a scene whose validation has      *)
(* begun.  An issue recorded later is of the same scene or of a scene      *)
(* validated later, so the issues of a scene are contiguous and the        *)
(* scenes come in validation order; of two issues of one scene the later   *)
(* has the same step or a greater one; and no issue of the current scene   *)
(* has a step greater than the play calls its routine has made.            *)
(***************************************************************************)
C27_GroupedAndOrdered ==
    /\ \A k \in 1 .. Len(issues) :
          \E n \in 1 .. Len(validated) : validated[n].scene = issues[k].scene_name
    /\ \A j, k \in 1 .. Len(issues) :
          j < k =>
            /\ PlaceOf(issues[j].scene_name) <= PlaceOf(issues[k].scene_name)
            /\ issues[j].scene_name = issues[k].scene_name
                  => issues[j].step <= issues[k].step
    /\ Len(validated) > 0 =>
          \A k \in IssuesOf(CurScene) : issues[k].step <= plays

\* the tracker holds two issues of the first scene, of step 1 and of step 2,
\* and after them an issue of the second scene
C27_Witness ==
    /\ Len(validated) = 2
    /\ \E i, j, k \in 1 .. Len(issues) :
         /\ i < j /\ j < k
         /\ issues[i].scene_name = validated[1].scene
         /\ issues[j].scene_name = validated[1].scene
         /\ issues[k].scene_name = validated[2].scene
         /\ issues[i].step = 1
         /\ issues[j].step = 2

\* the step is one that scans the frame; the final scan of a scene; the scan
\* of a play call without arguments
ScanStep == scans' = scans + 1
FinalScanStep == ScanStep /\ validated' # validated
EmptyPlayStep == ScanStep /\ plays' = plays + 1

(***************************************************************************)
(* C28  A scan of the frame takes nothing from the dedup sets and from the *)
(* tracker: after it both sets hold the keys they held and the tracker     *)
(* begins with the issues it held.  It leaves the scene alone: the final   *)
(* scan of a scene changes neither the snapshot nor the geometry of any    *)
(* element nor the step counter, and the scan of a play call without       *)
(* arguments changes neither the snapshot nor any geometry, the step       *)
(* being counted once by the call.                                         *)
(***************************************************************************)
C28_ScanReadsScene ==
    [][/\ ScanStep =>
            /\ reported_oob \subseteq reported_oob'
            /\ reported_overlaps \subseteq reported_overlaps'
            /\ Len(issues') >= Len(issues)
            /\ SubSeq(issues', 1, Len(issues)) = issues
            /\ step' \in {step, step + 1}
       /\ FinalScanStep => mobjects' = mobjects /\ geom' = geom /\ step' = step
       /\ EmptyPlayStep => mobjects' = mobjects /\ geom' = geom /\ step' = step + 1]_vars

\* the final scan of a scene after two play calls found an issue, the dedup
\* sets holding a key from before; the snapshot it scanned holds an element
\* it could not measure
C28_Witness ==
    /\ RoutineEnded
    /\ step = 2
    /\ NewIssues # {}
    /\ scanBase > 0
    /\ \E m \in cast.elems : InScene(mobjects, m) /\ ~Measurable(m)

====
